---- MODULE Spec2Model ----
(***************************************************************************)
(* Byte-level DFA for a character-level (Levenshtein) automaton:           *)
(* DFA, DFABuilder and DFAStateBuilder of src/src/dfa.rs.                  *)
(*                                                                         *)
(* State ids are 0-based, as in the source: the tables `distances` and     *)
(* `transitions` are functions over 0..num_states-1, a row is a function   *)
(* over the 256 byte values.                                               *)
(***************************************************************************)
EXTENDS Integers, Sequences, FiniteSets, TLC

VARIABLES
    index,          \* DFABuilder.index: Utf8State -> state id
    distances,      \* DFABuilder.distances / DFA.distances
    transitions,    \* DFABuilder.transitions / DFA.transitions
    initial_state,  \* DFABuilder.initial_state / DFA.initial_state
    num_states,     \* DFABuilder.num_states
    handle,         \* the live DFAStateBuilder (it borrows the builder), or NoHandle
    phase,          \* "building" until build() consumes the builder, then "built"
    calls,          \* history: the builder calls made so far, in order
    lastText,       \* the input of the latest eval on the built DFA, or NoText
    lastResult,     \* what that eval returned
    firstText,      \* the input of the first eval on the built DFA, or NoText
    firstResult,    \* what that eval returned
    evals,          \* history: the number of evals made on the built DFA
    twin            \* a second builder, driven by the same registrations (SpecOrder)

vars == <<index, distances, transitions, initial_state, num_states, handle, phase,
          calls, lastText, lastResult, firstText, firstResult, evals, twin>>

(***************************************************************************)
(* Bounds of the model.                                                    *)
(***************************************************************************)
MaxOps == 3         \* builder calls before build() (Spec)
MaxChars == 2       \* scalar values in an evaluated string
MaxReadOps == 2     \* builder calls before build() (SpecRead)
MaxOrdOps == 2      \* registration calls made on both builders (SpecOrder)
MaxEvals == 3       \* evals on the built automaton (SpecRead)
MaxPermOps == 4     \* builder calls before build() (SpecPerm)

\* the caller's state ids
OrigIds == {0, 1}
OrdIds == {0, 1, 2}

(***************************************************************************)
(* Values.                                                                 *)
(***************************************************************************)
Bytes == 0..255

Exact(n) == [tag |-> "Exact", n |-> n]
AtLeast(n) == [tag |-> "AtLeast", n |-> n]

\* the distances a caller registers states with
Dists == {Exact(0), Exact(1)}

Original(id) == [tag |-> "Original", id |-> id, n |-> 0]
Predecessor(id, n) == [tag |-> "Predecessor", id |-> id, n |-> n]

NoHandle == [state_id |-> -1]
NoText == <<-1>>
Panic == [tag |-> "panic", n |-> 0]
PanicState == -1

\* The scalar values the caller gives explicit transitions:
\*   U+0061  61              U+00E9  C3 A9
\*   U+3042  E3 81 82        U+3082  E3 82 82        U+1F600  F0 9F 98 80
Chars == {97, 233, 12354, 12418, 128512}
\* the scalar values of evaluated strings: one of each encoded length, and
\* U+2764 (E2 9D A4)
StringChars == {97, 233, 12354, 10084, 128512}
\* the scalar values fed one at a time: those above, U+00E8 (C3 A8) and
\* U+20AC (E2 82 AC)
EvalChars == Chars \cup StringChars \cup {232, 8364}
OrdChars == {233, 12354}
\* each state is registered with a distance of its own there
OrdDistance(s) == Exact(s)

\* char::encode_utf8: the UTF-8 bytes of a scalar value
encode_utf8(chr) ==
    IF chr < 128 THEN <<chr>>
    ELSE IF chr < 2048 THEN <<192 + (chr \div 64), 128 + (chr % 64)>>
    ELSE IF chr < 65536 THEN
        <<224 + (chr \div 4096), 128 + ((chr \div 64) % 64), 128 + (chr % 64)>>
    ELSE <<240 + (chr \div 262144), 128 + ((chr \div 4096) % 64),
           128 + ((chr \div 64) % 64), 128 + (chr % 64)>>

\* fn fill(dest, val)
fill(dest, val) == [b \in DOMAIN dest |-> val]

\* Vec::resize(new_len, value)
resize(vec, new_len, value) ==
    [i \in 0..(new_len - 1) |-> IF i \in DOMAIN vec THEN vec[i] ELSE value]

(***************************************************************************)
(* DFABuilder.  A builder is a record of its five fields; every method is  *)
(* an operator from the builder before to the builder after (and the       *)
(* value returned).                                                        *)
(***************************************************************************)
with_capacity ==
    [index |-> [k \in {} |-> 0],
     distances |-> [i \in {} |-> AtLeast(255)],
     transitions |-> [i \in {} |-> [b \in Bytes |-> 0]],
     initial_state |-> 0,
     num_states |-> 0]

\* allocate with the placeholder row pointing one past the new state
allocate_past_end(b) ==
    LET new_state == b.num_states
    IN [b |-> [b EXCEPT !.num_states = new_state + 1,
                        !.distances = resize(@, new_state + 1, AtLeast(255)),
                        !.transitions = resize(@, new_state + 1,
                                               [x \in Bytes |-> new_state + 1])],
        id |-> new_state]

\* allocate leaving an unused id before each one it returns
allocate_gap(b) ==
    LET new_state == b.num_states + 1
    IN [b |-> [b EXCEPT !.num_states = new_state + 1,
                        !.distances = resize(@, new_state + 1, AtLeast(255)),
                        !.transitions = resize(@, new_state + 1, [x \in Bytes |-> 0])],
        id |-> new_state]

\* allocate with the distance of the new state initialised to Exact(0)
allocate_zero_distance(b) ==
    LET new_state == b.num_states
    IN [b |-> [b EXCEPT !.num_states = new_state + 1,
                        !.distances = resize(@, new_state + 1, Exact(0)),
                        !.transitions = resize(@, new_state + 1, [x \in Bytes |-> 0])],
        id |-> new_state]

allocate(b) ==
    LET new_state == b.num_states
    IN [b |-> [b EXCEPT !.num_states = new_state + 1,
                        !.distances = resize(@, new_state + 1, AtLeast(255)),
                        !.transitions = resize(@, new_state + 1, [x \in Bytes |-> 0])],
        id |-> new_state]

\* get_or_allocate without the lookup: every call allocates
get_or_allocate_always(b, state) ==
    LET a == allocate(b)
    IN [b |-> [a.b EXCEPT !.index =
                   [k \in (DOMAIN @) \cup {state} |->
                       IF k = state THEN a.id ELSE @[k]]],
        id |-> a.id]

get_or_allocate(b, state) ==
    IF state \in DOMAIN b.index
    THEN [b |-> b, id |-> b.index[state]]
    ELSE LET a == allocate(b)
         IN [b |-> [a.b EXCEPT !.index =
                        [k \in (DOMAIN @) \cup {state} |->
                            IF k = state THEN a.id ELSE @[k]]],
             id |-> a.id]

\* set_initial_state recording the caller's id instead of the interned one
set_initial_state_raw(b, initial) ==
    LET r == get_or_allocate(b, Original(initial))
    IN [r.b EXCEPT !.initial_state = initial]

set_initial_state(b, initial) ==
    LET r == get_or_allocate(b, Original(initial))
    IN [r.b EXCEPT !.initial_state = r.id]

\* the loop with every Predecessor row pointing straight at the default successor
RECURSIVE predecessor_loop_flat(_, _, _, _)
predecessor_loop_flat(b, predecessor_states, default_successor_id, num_bytes) ==
    IF num_bytes >= 4
    THEN [b |-> b, predecessor_states |-> predecessor_states]
    ELSE LET r == get_or_allocate(b, Predecessor(default_successor_id, num_bytes))
             ps == [predecessor_states EXCEPT ![num_bytes] = r.id]
             succ == ps[0]
             b2 == [r.b EXCEPT !.transitions[r.id] = fill(@, succ)]
         IN predecessor_loop_flat(b2, ps, default_successor_id, num_bytes + 1)

\* the loop `for num_bytes in 1..4` of add_state
RECURSIVE predecessor_loop(_, _, _, _)
predecessor_loop(b, predecessor_states, default_successor_id, num_bytes) ==
    IF num_bytes >= 4
    THEN [b |-> b, predecessor_states |-> predecessor_states]
    ELSE LET r == get_or_allocate(b, Predecessor(default_successor_id, num_bytes))
             ps == [predecessor_states EXCEPT ![num_bytes] = r.id]
             succ == ps[num_bytes - 1]
             b2 == [r.b EXCEPT !.transitions[r.id] = fill(@, succ)]
         IN predecessor_loop(b2, ps, default_successor_id, num_bytes + 1)

\* the lead-byte classes with the three-byte leads sent to the two-byte chain
lead_byte_row_shifted(predecessor_states) ==
    [x \in Bytes |->
        IF x < 192 THEN predecessor_states[0]
        ELSE IF x < 240 THEN predecessor_states[1]
        ELSE predecessor_states[3]]

\* the four loops over the lead-byte classes in add_state
lead_byte_row(predecessor_states) ==
    [x \in Bytes |->
        IF x < 192 THEN predecessor_states[0]
        ELSE IF x < 224 THEN predecessor_states[1]
        ELSE IF x < 240 THEN predecessor_states[2]
        ELSE predecessor_states[3]]

\* add_state storing the distance at the default successor's id
add_state_distance_on_successor(b, state, distance, default_successor_orig) ==
    LET r1 == get_or_allocate(b, Original(state))
        state_id == r1.id
        r2 == get_or_allocate(r1.b, Original(default_successor_orig))
        default_successor_id == r2.id
        b1 == [r2.b EXCEPT !.distances[default_successor_id] = distance]
        lp == predecessor_loop(b1, [i \in 0..3 |-> default_successor_id],
                               default_successor_id, 1)
        b3 == [lp.b EXCEPT !.transitions[state_id] =
                                lead_byte_row(lp.predecessor_states)]
    IN [b |-> b3,
        handle |-> [state_id |-> state_id,
                    default_successor |-> lp.predecessor_states]]

add_state(b, state, distance, default_successor_orig) ==
    LET r1 == get_or_allocate(b, Original(state))
        state_id == r1.id
        b1 == [r1.b EXCEPT !.distances[state_id] = distance]
        r2 == get_or_allocate(b1, Original(default_successor_orig))
        default_successor_id == r2.id
        lp == predecessor_loop(r2.b, [i \in 0..3 |-> default_successor_id],
                               default_successor_id, 1)
        b3 == [lp.b EXCEPT !.transitions[state_id] =
                                lead_byte_row(lp.predecessor_states)]
    IN [b |-> b3,
        handle |-> [state_id |-> state_id,
                    default_successor |-> lp.predecessor_states]]

(***************************************************************************)
(* DFAStateBuilder.                                                        *)
(***************************************************************************)
add_transition_id_row(b, from_state_id, byte, to_state_id) ==
    [b EXCEPT !.transitions[from_state_id] = fill(@, to_state_id)]

add_transition_id(b, from_state_id, byte, to_state_id) ==
    [b EXCEPT !.transitions[from_state_id][byte] = to_state_id]

\* the loop over bytes[..bytes.len() - 1] of add_transition; i is 0-based
RECURSIVE prefix_loop(_, _, _, _, _)
prefix_loop(b, h, bytes, i, from_state_id_decoded) ==
    IF i >= Len(bytes) - 1
    THEN [b |-> b, from |-> from_state_id_decoded]
    ELSE LET byte == bytes[i + 1]
             remaining_num_bytes == Len(bytes) - i - 1
             default_successor == h.default_successor[remaining_num_bytes]
             found == b.transitions[from_state_id_decoded][byte]
             a == allocate(b)
             intermediary == IF found = default_successor THEN a.id ELSE found
             b1 == IF found = default_successor
                   THEN [a.b EXCEPT !.transitions[intermediary] =
                                        fill(@, default_successor)]
                   ELSE b
             b2 == add_transition_id(b1, from_state_id_decoded, byte, intermediary)
         IN prefix_loop(b2, h, bytes, i + 1, intermediary)

add_transition(b, h, chr, to_state_id) ==
    LET bytes == encode_utf8(chr)
        w == prefix_loop(b, h, bytes, 0, h.state_id)
        r == get_or_allocate(w.b, Original(to_state_id))
    IN add_transition_id(r.b, w.from, bytes[Len(bytes)], r.id)

(***************************************************************************)
(* DFA.  d is a record with the fields transitions, distances and          *)
(* initial_state.  An index past the end of a Vec panics.                  *)
(***************************************************************************)
dfa_num_states(d) == Cardinality(DOMAIN d.transitions)

\* DFA::transition; PanicState stands for the panic of an index out of range
transition(d, from_state_id, byte) ==
    IF from_state_id \notin DOMAIN d.transitions
    THEN PanicState
    ELSE d.transitions[from_state_id][byte]

\* DFA::distance
distance(d, state_id) ==
    IF state_id \notin DOMAIN d.distances
    THEN Panic
    ELSE d.distances[state_id]

\* the loop of eval: the state after feeding text[i..] from a state
RECURSIVE run_from(_, _, _, _)
run_from(d, state, text, i) ==
    IF i > Len(text) THEN state
    ELSE run_from(d, transition(d, state, text[i]), text, i + 1)

\* the state after feeding text from a state
run(d, state, text) == run_from(d, state, text, 1)

\* DFA::eval
eval(d, text) == distance(d, run(d, d.initial_state, text))

(***************************************************************************)
(* The program.                                                            *)
(***************************************************************************)
Builder ==
    [index |-> index, distances |-> distances, transitions |-> transitions,
     initial_state |-> initial_state, num_states |-> num_states]

\* DFABuilder::build moves the three tables into the DFA
Dfa ==
    [transitions |-> transitions, distances |-> distances,
     initial_state |-> initial_state]

Install(b) ==
    /\ index' = b.index
    /\ distances' = b.distances
    /\ transitions' = b.transitions
    /\ initial_state' = b.initial_state
    /\ num_states' = b.num_states

Call(op, s, d, t, c) == [op |-> op, s |-> s, d |-> d, t |-> t, c |-> c]

\* the caller's id of the state the live handle was returned for
Owner ==
    LET regs == {i \in 1..Len(calls) : calls[i].op = "add_state"}
        last == CHOOSE i \in regs : \A j \in regs : j <= i
    IN calls[last].s

TwinInit == [b |-> with_capacity, handle |-> NoHandle, initial |-> -1]

Init ==
    /\ index = with_capacity.index
    /\ distances = with_capacity.distances
    /\ transitions = with_capacity.transitions
    /\ initial_state = with_capacity.initial_state
    /\ num_states = with_capacity.num_states
    /\ handle = NoHandle
    /\ phase = "building"
    /\ calls = <<>>
    /\ lastText = NoText
    /\ lastResult = Panic
    /\ firstText = NoText
    /\ firstResult = Panic
    /\ evals = 0
    /\ twin = TwinInit

EvalVars == <<lastText, lastResult, firstText, firstResult, evals>>

\* DFABuilder::set_initial_state; the call ends the borrow of a live handle
SetInitialState(i) ==
    /\ phase = "building"
    /\ Install(set_initial_state(Builder, i))
    /\ handle' = NoHandle
    /\ calls' = Append(calls, Call("set_initial_state", i, Panic, -1, -1))
    /\ UNCHANGED <<phase, EvalVars, twin>>

\* DFABuilder::add_state; the handle returned replaces the live one
AddState(s, d, t) ==
    /\ phase = "building"
    /\ LET r == add_state(Builder, s, d, t)
       IN /\ Install(r.b)
          /\ handle' = r.handle
    /\ calls' = Append(calls, Call("add_state", s, d, t, -1))
    /\ UNCHANGED <<phase, EvalVars, twin>>

\* DFAStateBuilder::add_transition on the live handle
AddTransition(c, to) ==
    /\ phase = "building"
    /\ handle # NoHandle
    /\ Install(add_transition(Builder, handle, c, to))
    /\ calls' = Append(calls, Call("add_transition", Owner, Panic, to, c))
    /\ UNCHANGED <<handle, phase, EvalVars, twin>>

\* DFABuilder::build consumes the builder
Build ==
    /\ phase = "building"
    /\ phase' = "built"
    /\ handle' = NoHandle
    /\ UNCHANGED <<index, distances, transitions, initial_state, num_states,
                   calls, EvalVars, twin>>

\* eval keeping its cursor in the automaton: the state reached becomes the
\* initial state
EvalMovingInitial(text) ==
    /\ phase = "built"
    /\ lastText' = text
    /\ lastResult' = eval(Dfa, text)
    /\ firstText' = IF firstText = NoText THEN text ELSE firstText
    /\ firstResult' = IF firstText = NoText THEN eval(Dfa, text) ELSE firstResult
    /\ evals' = evals + 1
    /\ initial_state' = run(Dfa, initial_state, text)
    /\ UNCHANGED <<index, distances, transitions, num_states,
                   handle, phase, calls, twin>>

\* DFA::eval on the built automaton; &self is a shared reference
Eval(text) ==
    /\ phase = "built"
    /\ lastText' = text
    /\ lastResult' = eval(Dfa, text)
    /\ firstText' = IF firstText = NoText THEN text ELSE firstText
    /\ firstResult' = IF firstText = NoText THEN eval(Dfa, text) ELSE firstResult
    /\ evals' = evals + 1
    /\ UNCHANGED <<index, distances, transitions, initial_state, num_states,
                   handle, phase, calls, twin>>

Next ==
    \/ \E i \in OrigIds : Len(calls) < MaxOps /\ SetInitialState(i)
    \/ \E s \in OrigIds, d \in Dists, t \in OrigIds :
            Len(calls) < MaxOps /\ AddState(s, d, t)
    \/ \E c \in Chars, to \in OrigIds : Len(calls) < MaxOps /\ AddTransition(c, to)
    \/ Build

Spec == Init /\ [][Next]_vars

(***************************************************************************)
(* SpecRead: a built automaton is evaluated any number of times.           *)
(***************************************************************************)
\* "", "a", U+3042, a lone lead byte, a lone continuation byte
ReadTexts == {<<>>, <<97>>, <<227, 129, 130>>, <<195>>, <<130>>}

NextRead ==
    \/ \E i \in OrigIds : Len(calls) < MaxReadOps /\ SetInitialState(i)
    \/ \E s \in OrigIds, d \in Dists, t \in OrigIds :
            Len(calls) < MaxReadOps /\ AddState(s, d, t)
    \/ \E c \in Chars, to \in OrigIds :
            Len(calls) < MaxReadOps /\ AddTransition(c, to)
    \/ Build
    \/ \E text \in ReadTexts : evals < MaxEvals /\ Eval(text)

SpecRead == Init /\ [][NextRead]_vars
(***************************************************************************)
(* SpecOrder: two builders are given the same registrations (add_state and *)
(* the add_transition calls on its handle) and the same initial state.     *)
(* The first (the variables) is given set_initial_state at any point       *)
(* between registrations, the second (twin) after all of them.             *)
(***************************************************************************)
TwinDfa ==
    [transitions |-> twin.b.transitions, distances |-> twin.b.distances,
     initial_state |-> twin.b.initial_state]

Registrations == {i \in 1..Len(calls) : calls[i].op # "set_initial_state"}

OrdSetInitialFirst(i) ==
    /\ phase = "building"
    /\ twin.initial = -1
    /\ \A k \in 1..Len(calls) : calls[k].op # "set_initial_state"
    /\ Install(set_initial_state(Builder, i))
    /\ handle' = NoHandle
    /\ twin' = [twin EXCEPT !.handle = NoHandle]
    /\ calls' = Append(calls, Call("set_initial_state", i, Panic, -1, -1))
    /\ UNCHANGED <<phase, EvalVars>>

OrdAddState(s, d, t) ==
    /\ phase = "building"
    /\ twin.initial = -1
    /\ LET r == add_state(Builder, s, d, t)
           r2 == add_state(twin.b, s, d, t)
       IN /\ Install(r.b)
          /\ handle' = r.handle
          /\ twin' = [twin EXCEPT !.b = r2.b, !.handle = r2.handle]
    /\ calls' = Append(calls, Call("add_state", s, d, t, -1))
    /\ UNCHANGED <<phase, EvalVars>>

OrdAddTransition(c, to) ==
    /\ phase = "building"
    /\ twin.initial = -1
    /\ handle # NoHandle
    /\ twin.handle # NoHandle
    /\ Install(add_transition(Builder, handle, c, to))
    /\ twin' = [twin EXCEPT !.b = add_transition(twin.b, twin.handle, c, to)]
    /\ calls' = Append(calls, Call("add_transition", Owner, Panic, to, c))
    /\ UNCHANGED <<handle, phase, EvalVars>>

OrdSetInitialLast ==
    /\ phase = "building"
    /\ twin.initial = -1
    /\ \E k \in 1..Len(calls) :
          /\ calls[k].op = "set_initial_state"
          /\ twin' = [b |-> set_initial_state(twin.b, calls[k].s),
                      handle |-> NoHandle,
                      initial |-> calls[k].s]
    /\ handle' = NoHandle
    /\ UNCHANGED <<index, distances, transitions, initial_state, num_states,
                   phase, calls, EvalVars>>

OrdBuild ==
    /\ twin.initial # -1
    /\ Build

NextOrder ==
    \/ \E i \in OrdIds : OrdSetInitialFirst(i)
    \/ \E s \in OrdIds, t \in OrdIds :
            Cardinality(Registrations) < MaxOrdOps /\ OrdAddState(s, OrdDistance(s), t)
    \/ \E c \in OrdChars, to \in OrdIds :
            Cardinality(Registrations) < MaxOrdOps /\ OrdAddTransition(c, to)
    \/ OrdSetInitialLast
    \/ OrdBuild

SpecOrder == Init /\ [][NextOrder]_vars

(***************************************************************************)
(* What the caller did, read from the history of calls.                    *)
(***************************************************************************)
CallsOf(op) == {i \in 1..Len(calls) : calls[i].op = op}

\* the ids add_state was called for
Registered == {calls[i].s : i \in CallsOf("add_state")}

\* the ids named in any call
Referenced ==
    {calls[i].s : i \in 1..Len(calls)}
        \cup {calls[i].t : i \in CallsOf("add_state") \cup CallsOf("add_transition")}

\* the ids named as a default successor
DefaultSuccessors == {calls[i].t : i \in CallsOf("add_state")}

\* the latest add_state call for o
LastReg(o) ==
    CHOOSE i \in CallsOf("add_state") :
        /\ calls[i].s = o
        /\ \A j \in CallsOf("add_state") : calls[j].s = o => j <= i

RegDistance(o) == calls[LastReg(o)].d
RegSuccessor(o) == calls[LastReg(o)].t

\* the caller's id of the initial state: the one set last, or, when none was
\* set, the id of state 0, the first one ever named
InitialOrig ==
    IF CallsOf("set_initial_state") = {}
    THEN calls[1].s
    ELSE calls[CHOOSE i \in CallsOf("set_initial_state") :
                   \A j \in CallsOf("set_initial_state") : j <= i].s

RECURSIVE DefaultSteps(_, _)
DefaultSteps(o, n) == IF n = 0 THEN o ELSE DefaultSteps(RegSuccessor(o), n - 1)

StateOf(o) == index[Original(o)]
OriginalStates == {index[k] : k \in {x \in DOMAIN index : x.tag = "Original"}}

\* add_transition call j is in force: its state was not registered again and
\* its character was not added again on that state
InForce(j) ==
    /\ calls[j].op = "add_transition"
    /\ \A k \in (j + 1)..Len(calls) :
          /\ ~(calls[k].op = "add_state" /\ calls[k].s = calls[j].s)
          /\ ~(calls[k].op = "add_transition" /\ calls[k].s = calls[j].s
                    /\ calls[k].c = calls[j].c)

MultiByte(c) == Len(encode_utf8(c)) > 1

\* the strings of at most n scalar values, as sequences
RECURSIVE StringsUpTo(_)
StringsUpTo(n) ==
    IF n = 0 THEN {<<>>}
    ELSE LET shorter == StringsUpTo(n - 1)
         IN shorter \cup {Append(w, c) : w \in shorter, c \in StringChars}

\* str::as_bytes: the UTF-8 bytes of a string
RECURSIVE as_bytes(_)
as_bytes(w) == IF w = <<>> THEN <<>> ELSE encode_utf8(Head(w)) \o as_bytes(Tail(w))

\* byte sequences that are no valid UTF-8: a lone continuation byte, truncated
\* characters, a lead byte followed by a lead byte, 0xFF
RawTexts == {<<130>>, <<195>>, <<227, 129>>, <<240, 159, 152>>, <<195, 227>>, <<255, 97>>}

Texts == {as_bytes(w) : w \in StringsUpTo(MaxChars)} \cup RawTexts

(***************************************************************************)
(* Claims.                                                                 *)
(***************************************************************************)

\* C1: in the built automaton, for every add_transition(c, d) made on the
\* handle of a state s for a multi-byte character c and still in force (s was
\* not registered again, c was not added again on s), feeding the UTF-8 bytes
\* of c from the state of s reaches the state of Original(d), whose distance
\* an input ending there evaluates to.
ExplicitOverride ==
    phase = "built" =>
        \A j \in CallsOf("add_transition") :
            (InForce(j) /\ MultiByte(calls[j].c)) =>
                /\ run(Dfa, StateOf(calls[j].s), encode_utf8(calls[j].c))
                        = StateOf(calls[j].t)
                /\ distance(Dfa, run(Dfa, StateOf(calls[j].s), encode_utf8(calls[j].c)))
                        = distances[StateOf(calls[j].t)]

\* C2: when the calls on the live handle of a state s gave two distinct
\* multi-byte characters with the same lead byte explicit transitions to
\* different destinations d1 and d2, feeding the bytes of each from s reaches
\* the state of its own destination.
PrefixSharing ==
    handle # NoHandle =>
        \A j1, j2 \in CallsOf("add_transition") :
            (/\ j1 > LastReg(Owner) /\ j2 > LastReg(Owner)
             /\ InForce(j1) /\ InForce(j2)
             /\ calls[j1].c # calls[j2].c
             /\ MultiByte(calls[j1].c) /\ MultiByte(calls[j2].c)
             /\ encode_utf8(calls[j1].c)[1] = encode_utf8(calls[j2].c)[1]
             /\ calls[j1].t # calls[j2].t)
            => /\ run(Dfa, handle.state_id, encode_utf8(calls[j1].c)) = StateOf(calls[j1].t)
               /\ run(Dfa, handle.state_id, encode_utf8(calls[j2].c)) = StateOf(calls[j2].t)

\* the characters given an explicit transition on the live handle
ExplicitChars == {calls[j].c : j \in {k \in CallsOf("add_transition") : k > LastReg(Owner)}}

\* C3: after any number of add_transition calls on the live handle of a state
\* s with default successor t, every scalar value that was given no explicit
\* transition leads from s to the state of Original(t) after exactly its
\* bytes: it is there after the last byte, and in no Original state before.
DefaultFallThrough ==
    handle # NoHandle =>
        \A c \in EvalChars \ ExplicitChars :
            LET bytes == encode_utf8(c)
            IN /\ run(Dfa, handle.state_id, bytes) = StateOf(RegSuccessor(Owner))
               /\ \A n \in 1..(Len(bytes) - 1) :
                      run(Dfa, handle.state_id, SubSeq(bytes, 1, n)) \notin OriginalStates

\* C4: in an automaton built with add_state and set_initial_state calls only,
\* every id named being registered, eval on the UTF-8 bytes of a string of n
\* scalar values is the distance registered for the state n default-successor
\* steps from the initial state.
DefaultPathCounting ==
    (/\ phase = "built"
     /\ CallsOf("add_state") # {}
     /\ CallsOf("add_transition") = {}
     /\ Referenced \subseteq Registered)
    => LET d == Dfa
       IN \A w \in StringsUpTo(MaxChars) :
              eval(d, as_bytes(w)) = RegDistance(DefaultSteps(InitialOrig, Len(w)))

\* the parity automaton of test_utf8_dfa_builder, built and evaluated
DefaultPathCountingWitness ==
    /\ phase = "built"
    /\ calls = <<Call("add_state", 0, Exact(1), 1, -1),
                 Call("add_state", 1, Exact(0), 0, -1),
                 Call("set_initial_state", 1, Panic, -1, -1)>>
    /\ eval(Dfa, as_bytes(<<97, 12354>>)) = Exact(0)
    /\ eval(Dfa, as_bytes(<<10084>>)) = Exact(1)
    /\ eval(Dfa, as_bytes(<<128512, 233>>)) = Exact(0)

\* C5: in a built automaton, transition(s, b) is a state id below
\* num_states() for every state id s below num_states() and every byte b.
Totality ==
    phase = "built" =>
        LET n == dfa_num_states(Dfa)
        IN \A s \in 0..(n - 1) : \A b \in Bytes : transitions[s][b] < n

\* a built automaton with a referenced but unregistered state, Predecessor
\* states and an intermediate state of add_transition
TotalityWitness ==
    /\ phase = "built"
    /\ Referenced \ Registered # {}
    /\ \E k \in DOMAIN index : k.tag = "Predecessor"
    /\ num_states > Cardinality(DOMAIN index)

\* C8: for every built automaton, initial_state() is a state id of the
\* automaton and eval returns a Distance, with no access out of range, on
\* every byte sequence.
NoFalliblePath ==
    phase = "built" =>
        /\ initial_state \in 0..(dfa_num_states(Dfa) - 1)
        /\ \A text \in Texts : eval(Dfa, text) # Panic

\* C9: a referenced id that add_state was not called for has distance
\* AtLeast(255) and a row of 256 placeholders 0.
UnregisteredSentinel ==
    \A o \in Referenced \ Registered :
        /\ Original(o) \in DOMAIN index
        /\ distances[StateOf(o)] = AtLeast(255)
        /\ \A b \in Bytes : transitions[StateOf(o)][b] = 0

\* an id is referenced as a default successor and as the destination of a
\* multi-byte add_transition, never registered, and the automaton is built
UnregisteredSentinelWitness ==
    /\ phase = "built"
    /\ \E o \in Referenced \ Registered :
          /\ o \in DefaultSuccessors
          /\ \E j \in CallsOf("add_transition") : calls[j].t = o /\ MultiByte(calls[j].c)
\* C6: the interning map sends distinct keys to distinct ids and a key once
\* mapped keeps its id; the live handle of add_state(s, _, t) holds, for k in
\* 1..3, the id interned for Predecessor(t, k); and as long as add_transition
\* was not called, num_states is the number of distinct ids referenced plus
\* three times the number of distinct default successors.
InterningDedup ==
    /\ [](/\ \A k1, k2 \in DOMAIN index : index[k1] = index[k2] => k1 = k2
          /\ handle # NoHandle =>
                \A k \in 1..3 :
                    /\ Predecessor(StateOf(RegSuccessor(Owner)), k) \in DOMAIN index
                    /\ handle.default_successor[k]
                            = index[Predecessor(StateOf(RegSuccessor(Owner)), k)]
          /\ CallsOf("add_transition") = {} =>
                num_states = Cardinality(Referenced) + 3 * Cardinality(DefaultSuccessors))
    /\ [][\A k \in DOMAIN index : k \in DOMAIN index' /\ index'[k] = index[k]]_vars

\* three add_state calls, two default successors: 2 + 3 * 2 states
InterningDedupWitness ==
    /\ Len(calls) = 3
    /\ CallsOf("add_state") = {1, 2, 3}
    /\ calls[1].t = calls[3].t
    /\ DefaultSuccessors = {0, 1}
    /\ num_states = 8
\* C7 as stated: when set_initial_state(id) is called before or after
\* add_state(id, ...), both built automata have as initial state the id
\* interned for Original(id), with the distance registered for id, and eval
\* returns the same Distance on every input.
InitialStateOrderAnyReference ==
    (phase = "built" /\ twin.initial # -1 /\ twin.initial \in Registered) =>
        /\ initial_state = StateOf(twin.initial)
        /\ twin.b.initial_state = twin.b.index[Original(twin.initial)]
        /\ distance(Dfa, initial_state) = RegDistance(twin.initial)
        /\ distance(TwinDfa, twin.b.initial_state) = RegDistance(twin.initial)
        /\ \A text \in Texts : eval(Dfa, text) = eval(TwinDfa, text)

\* C7 amended: the same, for builders in which every id referenced is
\* registered.
InitialStateOrder ==
    (phase = "built" /\ twin.initial # -1 /\ Referenced \subseteq Registered) =>
        /\ initial_state = StateOf(twin.initial)
        /\ twin.b.initial_state = twin.b.index[Original(twin.initial)]
        /\ distance(Dfa, initial_state) = RegDistance(twin.initial)
        /\ distance(TwinDfa, twin.b.initial_state) = RegDistance(twin.initial)
        /\ \A text \in Texts : eval(Dfa, text) = eval(TwinDfa, text)

\* the construction of test_utf8_dfa_builder with set_initial_state(1) made
\* first in one builder and last in the other: the numeric ids differ
InitialStateOrderWitness ==
    /\ phase = "built"
    /\ twin.initial = 1
    /\ calls = <<Call("set_initial_state", 1, Panic, -1, -1),
                 Call("add_state", 0, Exact(0), 1, -1),
                 Call("add_state", 1, Exact(1), 0, -1)>>
    /\ initial_state = 0
    /\ twin.b.initial_state = 1
    /\ eval(Dfa, as_bytes(<<97, 12354>>)) = Exact(1)
    /\ eval(TwinDfa, as_bytes(<<10084>>)) = Exact(0)

\* C10: no read of the built automaton changes its transitions, distances
\* or initial state, and an eval of the input of the first eval returns what
\* the first eval returned, whatever was evaluated in between.
ReadsArePure ==
    /\ [][phase = "built" =>
            UNCHANGED <<transitions, distances, initial_state, num_states>>]_vars
    /\ []((firstText # NoText /\ lastText = firstText) => lastResult = firstResult)

\* the third eval is on the input of the first one
ReadsArePureWitness ==
    /\ phase = "built"
    /\ evals = 3
    /\ num_states > 0
    /\ firstText = <<227, 129, 130>>
    /\ lastText = firstText
    /\ lastResult \in Dists
\* the step is a call of op
StepOf(op) ==
    /\ Len(calls') = Len(calls) + 1
    /\ calls'[Len(calls')].op = op

\* C11: add_transition on the handle of a state s changes no entry in the row
\* of a Predecessor state or of an Original state other than s.
AddTransitionFrame ==
    [][StepOf("add_transition") =>
          \A k \in DOMAIN index :
              (k.tag = "Predecessor" \/ index[k] # handle.state_id)
                  => transitions'[index[k]] = transitions[index[k]]]_vars

\* what add_state(s, dist, t) leaves behind, for the latest call
AddStatePost ==
    LET c == calls[Len(calls)]
        sid == StateOf(c.s)
        tid == StateOf(c.t)
        p1 == index[Predecessor(tid, 1)]
        p2 == index[Predecessor(tid, 2)]
        p3 == index[Predecessor(tid, 3)]
    IN /\ distances[sid] = c.d
       /\ transitions[p1] = [x \in Bytes |-> tid]
       /\ transitions[p2] = [x \in Bytes |-> p1]
       /\ transitions[p3] = [x \in Bytes |-> p2]
       /\ \A x \in 0..191 : transitions[sid][x] = tid
       /\ \A x \in 192..223 : transitions[sid][x] = p1
       /\ \A x \in 224..239 : transitions[sid][x] = p2
       /\ \A x \in 240..255 : transitions[sid][x] = p3

\* C12: after add_state(s, dist, t) the distance of s is dist, the rows of
\* Predecessor(t, 1), (t, 2), (t, 3) point entirely to the state of
\* Original(t), to Predecessor(t, 1) and to Predecessor(t, 2), and the row of
\* s sends 0x00-0xBF to Original(t), 0xC0-0xDF to Predecessor(t, 1),
\* 0xE0-0xEF to Predecessor(t, 2) and 0xF0-0xFF to Predecessor(t, 3).
AddStatePostcondition == [][StepOf("add_state") => AddStatePost']_vars

\* add_state(s, _, s) was called for an id interned before by
\* set_initial_state, after the registration of another state
AddStatePostconditionWitness ==
    /\ Len(calls) = 3
    /\ calls[1].op = "set_initial_state"
    /\ calls[2].op = "add_state"
    /\ calls[3].op = "add_state"
    /\ calls[3].s = calls[1].s
    /\ calls[3].t = calls[3].s
    /\ calls[2].s # calls[3].s
    /\ handle # NoHandle
    /\ transitions[handle.state_id][97] = handle.state_id

\* C13: add_transition(c, d) with c below 0x80 on the handle of s sets entry c
\* of the row of s to the state of Original(d) and nothing else: the other 255
\* entries, every other row, every distance and the initial state keep their
\* values, and no state is allocated except possibly the one for Original(d).
SingleByteTransition ==
    [][(StepOf("add_transition") /\ calls'[Len(calls')].c < 128) =>
          LET c == calls'[Len(calls')]
              sid == handle.state_id
              new == IF Original(c.t) \in DOMAIN index THEN {} ELSE {Original(c.t)}
          IN /\ DOMAIN index' = DOMAIN index \cup new
             /\ \A k \in DOMAIN index : index'[k] = index[k]
             /\ num_states' = num_states + Cardinality(new)
             /\ DOMAIN transitions' = 0..(num_states' - 1)
             /\ DOMAIN distances' = 0..(num_states' - 1)
             /\ transitions'[sid] =
                    [transitions[sid] EXCEPT ![c.c] = index'[Original(c.t)]]
             /\ \A id \in DOMAIN transitions :
                    id # sid => transitions'[id] = transitions[id]
             /\ \A id \in DOMAIN distances : distances'[id] = distances[id]
             /\ initial_state' = initial_state]_vars

\* a single-byte transition to an id seen for the first time has been added
\* to a state whose row then differs from its defaults in that entry alone
SingleByteTransitionWitness ==
    /\ Len(calls) = 2
    /\ calls[1].op = "add_state"
    /\ calls[2].op = "add_transition"
    /\ calls[2].c = 97
    /\ calls[2].t # calls[1].s
    /\ calls[2].t # calls[1].t
    /\ num_states = 5
    /\ transitions[handle.state_id][97] = index[Original(calls[2].t)]
    /\ transitions[handle.state_id][98] = index[Original(calls[1].t)]

\* the two tables have one entry per allocated id and every id stored
\* anywhere is one of them
TablesAligned ==
    /\ DOMAIN transitions = 0..(num_states - 1)
    /\ DOMAIN distances = 0..(num_states - 1)
    /\ \A k \in DOMAIN index : index[k] \in 0..(num_states - 1)
    /\ \A k1, k2 \in DOMAIN index : index[k1] = index[k2] => k1 = k2
    /\ CallsOf("set_initial_state") # {} => initial_state \in 0..(num_states - 1)
    /\ \A s \in DOMAIN transitions :
          \A x \in Bytes : transitions[s][x] < num_states
    /\ LET a == allocate(Builder)
       IN a.id = num_states /\ a.b.num_states = num_states + 1
    /\ phase = "built" => dfa_num_states(Dfa) = num_states

\* ids are handed out in order and are never taken back or given twice
DenseIds ==
    /\ num_states' >= num_states
    /\ \A k \in DOMAIN index : k \in DOMAIN index' /\ index'[k] = index[k]
    /\ \A k \in DOMAIN index' \ DOMAIN index :
          index'[k] \in num_states..(num_states' - 1)

\* C14: transitions and distances always have num_states entries; allocate
\* returns 0, 1, 2, ... with no gap and no reuse and num_states never
\* decreases; every id in index, initial_state once set_initial_state was
\* called, and every row entry is below num_states; the built automaton's
\* num_states() is the number of ids allocated.
TableAlignment == []TablesAligned /\ [][DenseIds]_vars

\* an automaton was built with an initial state and with an intermediate
\* state, which has an id and no key in index
TableAlignmentWitness ==
    /\ phase = "built"
    /\ CallsOf("set_initial_state") # {}
    /\ CallsOf("add_transition") # {}
    /\ num_states >= 6
    /\ Cardinality(DOMAIN index) < num_states
    /\ dfa_num_states(Dfa) = num_states

\* the states reached from a state of S by one more byte, whatever the byte
Image(S) == {transitions[s][x] : s \in S, x \in Bytes}

RECURSIVE ImageN(_, _)
ImageN(S, n) == IF n = 0 THEN S ELSE ImageN(Image(S), n - 1)

\* the lead bytes of the characters encoded on L bytes
LeadBytes(L) ==
    CASE L = 1 -> 0..191
      [] L = 2 -> 192..223
      [] L = 3 -> 224..239
      [] L = 4 -> 240..255

\* the states reached from the state of o by a lead byte of class L
AfterLead(o, L) == {transitions[StateOf(o)][x] : x \in LeadBytes(L)}

\* C15: in an automaton built with every referenced id registered, from the
\* state of a registered id a lead byte of class L followed by any L-1 bytes
\* leads to the state of an Original id after exactly L bytes and to a
\* non-Original state after each of the first L-1 bytes.
CharacterBoundaryAlignment ==
    (phase = "built" /\ Referenced \subseteq Registered) =>
        \A o \in Registered : \A L \in 1..4 :
            /\ \A n \in 0..(L - 2) :
                  ImageN(AfterLead(o, L), n) \cap OriginalStates = {}
            /\ ImageN(AfterLead(o, L), L - 1) \subseteq OriginalStates

(***************************************************************************)
(* The same registrations in another order.  The builder makes             *)
(* set_initial_state and then registers states, each id once; at build()   *)
(* the twin builder makes the same set_initial_state and then the same     *)
(* registrations, each add_state with its own add_transition calls, in an  *)
(* order given by a permutation.                                           *)
(***************************************************************************)
\* the calls cs made in order on builder b, h being the live handle
RECURSIVE Replay(_, _, _)
Replay(b, h, cs) ==
    IF cs = <<>> THEN b
    ELSE LET c == Head(cs)
         IN CASE c.op = "set_initial_state" ->
                    Replay(set_initial_state(b, c.s), NoHandle, Tail(cs))
              [] c.op = "add_state" ->
                    LET r == add_state(b, c.s, c.d, c.t)
                    IN Replay(r.b, r.handle, Tail(cs))
              [] c.op = "add_transition" ->
                    Replay(add_transition(b, h, c.c, c.t), h, Tail(cs))

Perms(n) == {f \in [1..n -> 1..n] : \A a, b \in 1..n : f[a] = f[b] => a = b}

\* the k-th add_state call
NthReg(k) ==
    CHOOSE i \in CallsOf("add_state") :
        Cardinality({j \in CallsOf("add_state") : j <= i}) = k

\* the k-th registration: the k-th add_state call and the add_transition
\* calls made on its handle
Block(k) ==
    LET i == NthReg(k)
        later == {j \in CallsOf("add_state") : j > i}
        end == IF later = {} THEN Len(calls)
               ELSE (CHOOSE j \in later : \A m \in later : j <= m) - 1
    IN SubSeq(calls, i, end)

RECURSIVE Blocks(_, _)
Blocks(p, k) ==
    IF k > Cardinality(DOMAIN p) THEN <<>> ELSE Block(p[k]) \o Blocks(p, k + 1)

\* the calls made, with the registrations in the order p
Permuted(p) == SubSeq(calls, 1, NthReg(1) - 1) \o Blocks(p, 1)

PermSetInitialState(i) ==
    /\ calls = <<>>
    /\ SetInitialState(i)

PermAddState(s, d, t) ==
    /\ calls # <<>>
    /\ s \notin Registered
    /\ AddState(s, d, t)

PermAddTransition(c, to) == AddTransition(c, to)

PermBuild(p) ==
    /\ phase = "building"
    /\ phase' = "built"
    /\ handle' = NoHandle
    /\ twin' = [b |-> Replay(with_capacity, NoHandle, Permuted(p)),
                handle |-> NoHandle,
                initial |-> calls[1].s]
    /\ UNCHANGED <<index, distances, transitions, initial_state, num_states,
                   calls, EvalVars>>

NextPerm ==
    \/ \E i \in OrdIds : PermSetInitialState(i)
    \/ \E s \in OrdIds, t \in OrdIds :
            Len(calls) < MaxPermOps /\ PermAddState(s, OrdDistance(s), t)
    \/ \E c \in OrdChars, to \in OrdIds :
            Len(calls) < MaxPermOps /\ PermAddTransition(c, to)
    \/ \E p \in Perms(Cardinality(CallsOf("add_state"))) :
            CallsOf("add_state") # {} /\ PermBuild(p)

SpecPerm == Init /\ [][NextPerm]_vars

\* C16: when every id is registered once and every referenced id is
\* registered, the automaton built from the registrations in one order and
\* the automaton built from the same registrations in any other order return
\* the same Distance from eval on every input.
RegistrationOrderIndependence ==
    (phase = "built" /\ twin.initial # -1 /\ Referenced \subseteq Registered) =>
        \A text \in Texts : eval(Dfa, text) = eval(TwinDfa, text)

\* the states of the Original ids on which add_state was called
RegisteredStates == {StateOf(o) : o \in Registered}

\* every other state carries the sentinel distance
SentinelElsewhere ==
    \A id \in DOMAIN distances :
        id \notin RegisteredStates => distances[id] = AtLeast(255)

\* add_state(s, dist, t) leaves the distance of every state but s's alone
AddStateDistanceFrame ==
    StepOf("add_state") =>
        \A id \in DOMAIN distances :
            id # index'[Original(calls'[Len(calls')].s)]
                => distances'[id] = distances[id]

\* C17: in the builder and in the built automaton every state that is not
\* the state of an Original id on which add_state was called (Predecessor
\* states, intermediate states, merely referenced Original ids) has distance
\* AtLeast(255), and add_state(s, dist, t) changes the distance of the state
\* of s only.
SynthesizedSentinel == []SentinelElsewhere /\ [][AddStateDistanceFrame]_vars

\* an automaton was built with a registered state, its Predecessor states,
\* an intermediate state and a destination that was never registered
SynthesizedSentinelWitness ==
    /\ phase = "built"
    /\ Registered = {0}
    /\ Referenced = {0, 1}
    /\ \E j \in CallsOf("add_transition") : MultiByte(calls[j].c) /\ calls[j].t = 1
    /\ Cardinality(DOMAIN index) < num_states
    /\ distances[StateOf(0)] = Exact(1)
    /\ distances[StateOf(1)] = AtLeast(255)
====
